---- MODULE Spec2Model ----
(***************************************************************************)
(* Prompt assembly of the chain-of-thought completion agent runner         *)
(* (api/core/agent/cot_completion_agent_runner.py).                        *)
(*                                                                         *)
(* Texts are TLA+ strings handled character by character, so that          *)
(* str.replace, str.join, f-string formatting and json.dumps are modelled  *)
(* by what they do to the characters.                                      *)
(***************************************************************************)
EXTENDS Naturals, Sequences, FiniteSets, TLC

VARIABLES app_config, instruction, prompt_messages_tools,
          history_prompt_messages, agent_scratchpad, query,
          ret, last_assistant_prompt

vars == <<app_config, instruction, prompt_messages_tools,
          history_prompt_messages, agent_scratchpad, query,
          ret, last_assistant_prompt>>

inputs == <<app_config, instruction, prompt_messages_tools,
            history_prompt_messages, query>>

-----------------------------------------------------------------------------
(* Bounds of the model.                                                    *)

MaxTools == 2

MaxHistory == 2

MaxScratchpad == 2

-----------------------------------------------------------------------------
(* Python values: Optional[...] and str operations.                        *)

None == [isNone |-> TRUE]

Some(v) == [isNone |-> FALSE, val |-> v]

(* f"{x}" for an Optional[str]: str(None) is "None".                       *)
Format(o) == IF o.isNone THEN "None" ELSE o.val

(* `if x:` for an Optional[str]: None and "" are both falsy.               *)
Truthy(o) == IF o.isNone THEN FALSE ELSE o.val # ""

StartsWith(s, p) == Len(p) <= Len(s) /\ SubSeq(s, 1, Len(p)) = p

Drop(s, n) == SubSeq(s, n + 1, Len(s))

(* str.find(sub): the index (from 1) of the leftmost occurrence, 0 if none.*)
Find(s, sub) ==
    LET at == {i \in 1..(Len(s) + 1) :
                  i + Len(sub) - 1 <= Len(s) /\ SubSeq(s, i, i + Len(sub) - 1) = sub}
    IN  IF at = {} THEN 0 ELSE CHOOSE i \in at : \A j \in at : i <= j

(* str.replace(old, new) for a non-empty old: every non-overlapping        *)
(* occurrence, found left to right; the inserted text is not rescanned.    *)
RECURSIVE Replace(_, _, _)
Replace(s, old, new) ==
    LET i == Find(s, old)
    IN  IF i = 0 THEN s
        ELSE SubSeq(s, 1, i - 1) \o new \o Replace(Drop(s, i + Len(old) - 1), old, new)

(* sep.join(parts)                                                         *)
RECURSIVE Join(_, _)
Join(parts, sep) ==
    IF parts = <<>> THEN ""
    ELSE IF Len(parts) = 1 THEN parts[1]
    ELSE parts[1] \o sep \o Join(Tail(parts), sep)

-----------------------------------------------------------------------------
(* Placeholder tokens and literals of the source.                          *)

TOK_INSTRUCTION == "{{instruction}}"

TOK_TOOLS == "{{tools}}"

TOK_TOOL_NAMES == "{{tool_names}}"

TOK_HISTORIC == "{{historic_messages}}"

TOK_SCRATCHPAD == "{{agent_scratchpad}}"

TOK_QUERY == "{{query}}"

ERR_NO_AGENT == "Agent configuration is not set"

ERR_NO_PROMPT == "prompt entity is not set"

Ok(v) == [raised |-> FALSE, error |-> "", value |-> v]

Raise(msg) == [raised |-> TRUE, error |-> msg, value |-> ""]

-----------------------------------------------------------------------------
(* The tool catalog and its serialisation.                                 *)

(* A PromptMessageTool: name, description and a parameter dict, here a     *)
(* flat dict given as a sequence of <<key, value>> pairs of strings.       *)
Tool(n, d, p) == [name |-> n, description |-> d, parameters |-> p]

(* json.dumps of a str (ensure_ascii): quotes, with the quote, the         *)
(* backslash and the newline escaped.                                      *)
JsonEscape(s) ==
    Replace(Replace(Replace(s, "\\", "\\\\"), "\"", "\\\""), "\n", "\\n")

JsonString(s) == "\"" \o JsonEscape(s) \o "\""

(* json.dumps of a dict of strings: {"k": "v", ...} in insertion order.    *)
JsonDict(pairs) ==
    "{" \o Join([i \in 1..Len(pairs) |->
                    JsonString(pairs[i][1]) \o ": " \o JsonString(pairs[i][2])],
                ", ") \o "}"

(* jsonable_encoder of one tool followed by json.dumps: an object holding  *)
(* every field of the tool in declaration order.                           *)
jsonable_encoder(tool) ==
    "{" \o JsonString("name") \o ": " \o JsonString(tool.name)
        \o ", " \o JsonString("description") \o ": " \o JsonString(tool.description)
        \o ", " \o JsonString("parameters") \o ": " \o JsonDict(tool.parameters)
        \o "}"

(* json.dumps(jsonable_encoder(self._prompt_messages_tools))               *)
json_dumps(tools) ==
    "[" \o Join([i \in 1..Len(tools) |-> jsonable_encoder(tools[i])], ", ") \o "]"

tool_names_reversed(tools) ==
    Join([i \in 1..Len(tools) |-> tools[Len(tools) + 1 - i].name], ", ")

(* ", ".join([tool.name for tool in self._prompt_messages_tools])          *)
tool_names(tools) == Join([i \in 1..Len(tools) |-> tools[i].name], ", ")

-----------------------------------------------------------------------------
(* _organize_instruction_prompt                                            *)

first_prompt == app_config.agent.val.prompt.val.first_prompt

(* str.replace(old, new, 1)                                                *)
ReplaceFirst(s, old, new) ==
    LET i == Find(s, old)
    IN  IF i = 0 THEN s
        ELSE SubSeq(s, 1, i - 1) \o new \o Drop(s, i + Len(old) - 1)

system_prompt_first_instruction_only ==
    Replace(Replace(ReplaceFirst(first_prompt,
                                 TOK_INSTRUCTION, instruction),
                    TOK_TOOLS, json_dumps(prompt_messages_tools)),
            TOK_TOOL_NAMES, tool_names(prompt_messages_tools))

(* The chained replacements of the template.                               *)
system_prompt ==
    Replace(Replace(Replace(first_prompt,
                            TOK_INSTRUCTION, instruction),
                    TOK_TOOLS, json_dumps(prompt_messages_tools)),
            TOK_TOOL_NAMES, tool_names(prompt_messages_tools))

organize_instruction_prompt_one_error ==
    IF app_config.agent.isNone THEN Raise(ERR_NO_AGENT)
    ELSE IF app_config.agent.val.prompt.isNone THEN Raise(ERR_NO_AGENT)
    ELSE Ok(system_prompt)

organize_instruction_prompt ==
    IF app_config.agent.isNone THEN Raise(ERR_NO_AGENT)
    ELSE IF app_config.agent.val.prompt.isNone THEN Raise(ERR_NO_PROMPT)
    ELSE Ok(system_prompt)

-----------------------------------------------------------------------------
(* Prompt messages and their content.                                      *)

(* message.content is None, a str, a sequence of content parts, or a       *)
(* single TextPromptMessageContent.                                        *)
ContentNone == [kind |-> "none", data |-> "", parts |-> <<>>]

ContentStr(s) == [kind |-> "str", data |-> s, parts |-> <<>>]

ContentSeq(ps) == [kind |-> "seq", data |-> "", parts |-> ps]

ContentText(s) == [kind |-> "text", data |-> s, parts |-> <<>>]

TextPromptMessageContent(d) == [type |-> "text", data |-> d]

ImagePromptMessageContent(d) == [type |-> "image", data |-> d]

UserPromptMessage(c) == [role |-> "user", content |-> c]

AssistantPromptMessage(c) == [role |-> "assistant", content |-> c]

ToolPromptMessage(c) == [role |-> "tool", content |-> c]

SystemPromptMessage(c) == [role |-> "system", content |-> c]

IsText(part) == part.type = "text"

(* " ".join([content.data for content in message.content                   *)
(*           if isinstance(content, TextPromptMessageContent)])            *)
content_text(parts) ==
    LET texts == SelectSeq(parts, IsText)
    IN  Join([i \in 1..Len(texts) |-> texts[i].data], " ")

-----------------------------------------------------------------------------
(* _organize_historic_prompt                                               *)

(* One iteration of the loop over the history: what the message adds to    *)
(* historic_prompt.                                                        *)
(* Variants of historic_step used to test the properties.                  *)
historic_step_tool_parts(message) ==
    IF message.role = "tool" /\ message.content.kind = "seq"
    THEN "Tool Response: " \o content_text(message.content.parts) \o "\n\n"
    ELSE IF message.content.kind = "none" THEN ""
    ELSE IF message.content.kind = "seq"
         THEN (IF message.role = "user" THEN "Question: " ELSE "")
                  \o content_text(message.content.parts) \o "\n\n"
    ELSE IF message.role = "user" /\ message.content.kind = "str"
         THEN "Question: " \o message.content.data \o "\n\n"
    ELSE IF message.role = "assistant" THEN message.content.data \o "\n\n"
    ELSE IF message.role = "tool"
         THEN "Tool Response: " \o message.content.data \o "\n\n"
    ELSE ""

historic_step_none_as_text(message) ==
    IF message.role = "user" /\ message.content.kind = "none"
    THEN "Question: None\n\n"
    ELSE historic_step_tool_parts(message)

historic_step(message) ==
    LET c == message.content IN
    IF message.role = "user" THEN
        IF c.kind = "none" THEN ""
        ELSE IF c.kind = "str" THEN "Question: " \o c.data \o "\n\n"
        ELSE IF c.kind = "seq" THEN "Question: " \o content_text(c.parts) \o "\n\n"
        ELSE ""
    ELSE IF message.role = "assistant" THEN
        IF c.kind = "none" THEN ""
        ELSE IF c.kind = "str" THEN c.data \o "\n\n"
        ELSE IF c.kind = "seq" THEN content_text(c.parts) \o "\n\n"
        ELSE IF c.kind = "text" THEN c.data \o "\n\n"
        ELSE ""
    ELSE IF message.role = "tool" THEN
        IF c.kind = "none" THEN ""
        ELSE IF c.kind = "str" THEN "Tool Response: " \o c.data \o "\n\n"
        ELSE IF c.kind = "text" THEN "Tool Response: " \o c.data \o "\n\n"
        ELSE ""
    ELSE ""

RECURSIVE historic_loop(_, _)
historic_loop(messages, historic_prompt) ==
    IF messages = <<>> THEN historic_prompt
    ELSE historic_loop(Tail(messages), historic_prompt \o historic_step(Head(messages)))

(* self.history_prompt_messages or []                                      *)
historic_prompt_messages ==
    IF history_prompt_messages.isNone THEN <<>> ELSE history_prompt_messages.val

organize_historic_prompt == historic_loop(historic_prompt_messages, "")

-----------------------------------------------------------------------------
(* The scratchpad.                                                         *)

(* An AgentScratchpadUnit.  thought is a str; action_str, observation and  *)
(* agent_response are Optional[str]; action is an Optional action name.    *)
Unit(t, as, act, obs, resp) ==
    [thought |-> t, action_str |-> as, action |-> act,
     observation |-> obs, agent_response |-> resp]

FINAL_ANSWER == "Final Answer"

(* AgentScratchpadUnit.is_final: the step is a final answer, not a tool    *)
(* call.                                                                   *)
is_final(unit) ==
    IF unit.action.isNone THEN TRUE ELSE unit.action.val = FINAL_ANSWER

scratchpad_step_observation_first(unit) ==
    IF is_final(unit) THEN "Final Answer: " \o Format(unit.agent_response)
    ELSE ("Thought: " \o unit.thought \o "\n\n")
         \o (IF Truthy(unit.observation)
             THEN "Observation: " \o Format(unit.observation) \o "\n\n" ELSE "")
         \o (IF Truthy(unit.action_str)
             THEN "Action: " \o Format(unit.action_str) \o "\n\n" ELSE "")

(* One iteration of the loop over the scratchpad.                          *)
scratchpad_step(unit) ==
    IF is_final(unit) THEN "Final Answer: " \o Format(unit.agent_response)
    ELSE ("Thought: " \o unit.thought \o "\n\n")
         \o (IF Truthy(unit.action_str)
             THEN "Action: " \o Format(unit.action_str) \o "\n\n" ELSE "")
         \o (IF Truthy(unit.observation)
             THEN "Observation: " \o Format(unit.observation) \o "\n\n" ELSE "")

RECURSIVE scratchpad_loop(_, _)
scratchpad_loop_overwrite(units, text) ==
    IF units = <<>> THEN text
    ELSE scratchpad_loop(Tail(units), scratchpad_step(Head(units)))

scratchpad_loop(units, text) ==
    IF units = <<>> THEN text
    ELSE scratchpad_loop(Tail(units), text \o scratchpad_step(Head(units)))

assistant_prompt == scratchpad_loop(agent_scratchpad, "")

-----------------------------------------------------------------------------
(* _organize_prompt_messages                                               *)

query_prompt == "Question: " \o query

prompt_raw_query ==
    Replace(Replace(Replace(system_prompt,
                            TOK_HISTORIC, organize_historic_prompt),
                    TOK_SCRATCHPAD, assistant_prompt),
            TOK_QUERY, query)

prompt_keeps_scratchpad_token ==
    Replace(Replace(system_prompt,
                    TOK_HISTORIC, organize_historic_prompt),
            TOK_QUERY, query_prompt)

prompt ==
    Replace(Replace(Replace(system_prompt,
                            TOK_HISTORIC, organize_historic_prompt),
                    TOK_SCRATCHPAD, assistant_prompt),
            TOK_QUERY, query_prompt)

organize_prompt_messages ==
    IF organize_instruction_prompt.raised
    THEN [organize_instruction_prompt EXCEPT !.value = <<>>]
    ELSE Ok(<<UserPromptMessage(ContentSeq(<<TextPromptMessageContent(prompt)>>))>>)

-----------------------------------------------------------------------------
(* Inputs held by the runner, drawn from small sets.                       *)

AgentNotSet == [agent |-> None]

PromptNotSet == [agent |-> Some([prompt |-> None])]

Configured(template) ==
    [agent |-> Some([prompt |-> Some([first_prompt |-> template])])]

IsConfigured == IF app_config.agent.isNone THEN FALSE
                ELSE ~app_config.agent.val.prompt.isNone

InstructionTemplates ==
    { "I: {{instruction}}\nT: {{tools}}\nN: {{tool_names}}",
      "{{instruction}}",
      "{{instruction}} and {{instruction}}",
      "Help: {{instruction}}",
      "N: {{tool_names}}",
      "plain text",
      "{{to{{instruction}}",
      "{{tools}}{{tool_names}}" }

Instructions ==
    { "Help the user", "Help", "", "{{tools}}", "see {{tool_names}}", "ols}}" }

Calculator == Tool("calculator", "math", << <<"type", "object">> >>)

Weather == Tool("weather", "say \"hi\"", <<>>)

Lister == Tool("lister", "lists {{tool_names}}", <<>>)

ToolSpecs == {Calculator, Weather, Lister}

NoRepeat(seq) == \A i, j \in 1..Len(seq) : i # j => seq[i].name # seq[j].name

(* Sequences over S of length at most n.                                   *)
SeqsUpTo(S, n) == UNION {[1..k -> S] : k \in 0..n}

(* Catalogs: tool names are unique within a catalog.                       *)
Catalogs == {c \in SeqsUpTo(ToolSpecs, MaxTools) : NoRepeat(c)}

Messages ==
    { UserPromptMessage(ContentNone),
      UserPromptMessage(ContentStr("What's the weather?")),
      UserPromptMessage(ContentStr("")),
      UserPromptMessage(ContentSeq(<<TextPromptMessageContent("What's the weather like?"),
                                     TextPromptMessageContent("And temperature too?")>>)),
      UserPromptMessage(ContentSeq(<<ImagePromptMessageContent("img"),
                                     TextPromptMessageContent("see")>>)),
      UserPromptMessage(ContentSeq(<<>>)),
      UserPromptMessage(ContentText("lone")),
      AssistantPromptMessage(ContentNone),
      AssistantPromptMessage(ContentStr("Let me check.")),
      AssistantPromptMessage(ContentStr("")),
      AssistantPromptMessage(ContentSeq(<<TextPromptMessageContent("It is"),
                                          ImagePromptMessageContent("img"),
                                          TextPromptMessageContent("sunny")>>)),
      AssistantPromptMessage(ContentSeq(<<>>)),
      AssistantPromptMessage(ContentText("It's sunny today!")),
      ToolPromptMessage(ContentNone),
      ToolPromptMessage(ContentStr("The weather is sunny.")),
      ToolPromptMessage(ContentStr("")),
      ToolPromptMessage(ContentText("sunny")),
      ToolPromptMessage(ContentSeq(<<TextPromptMessageContent("sunny")>>)),
      ToolPromptMessage(ContentSeq(<<>>)),
      SystemPromptMessage(ContentStr("be brief")) }

Histories == {None} \cup {Some(h) : h \in SeqsUpTo(Messages, MaxHistory)}

(* ret holds the outcome of the latest call: the method, the error raised  *)
(* if any, and the str or the list of messages returned.                   *)
NoCall == [op |-> "none", raised |-> FALSE, error |-> "", text |-> "", messages |-> <<>>]

ReturnedStr(op, r) ==
    [op |-> op, raised |-> r.raised, error |-> r.error, text |-> r.value, messages |-> <<>>]

ReturnedList(op, r) ==
    [op |-> op, raised |-> r.raised, error |-> r.error, text |-> "", messages |-> r.value]

-----------------------------------------------------------------------------
(* Actions: one per method call, and the caller's append to the scratchpad.*)

CallOrganizeInstructionPrompt ==
    /\ ret' = ReturnedStr("instruction", organize_instruction_prompt)
    /\ UNCHANGED <<inputs, agent_scratchpad, last_assistant_prompt>>

CallOrganizeHistoricPrompt ==
    /\ ret' = ReturnedStr("historic", Ok(organize_historic_prompt))
    /\ UNCHANGED <<inputs, agent_scratchpad, last_assistant_prompt>>

(* last_assistant_prompt records the local assistant_prompt of the latest  *)
(* call that got past the instruction prompt.                              *)
CallOrganizePromptMessages ==
    /\ ret' = ReturnedList("messages", organize_prompt_messages)
    /\ last_assistant_prompt' =
           IF organize_instruction_prompt.raised THEN last_assistant_prompt
           ELSE assistant_prompt
    /\ UNCHANGED <<inputs, agent_scratchpad>>

HasFinal(units) == \E i \in 1..Len(units) : is_final(units[i])

(* The caller's reasoning iteration: the next unit is appended; nothing    *)
(* follows a final unit.                                                   *)
AppendUnit(unit) ==
    /\ Len(agent_scratchpad) < MaxScratchpad
    /\ ~HasFinal(agent_scratchpad)
    /\ agent_scratchpad' = Append(agent_scratchpad, unit)
    /\ UNCHANGED <<inputs, ret, last_assistant_prompt>>

-----------------------------------------------------------------------------
(* The instruction renderer over templates, instructions and catalogs.     *)

InitInstr ==
    /\ app_config \in {AgentNotSet, PromptNotSet}
                      \cup {Configured(t) : t \in InstructionTemplates}
    /\ instruction \in Instructions
    /\ prompt_messages_tools \in Catalogs
    /\ history_prompt_messages = None
    /\ agent_scratchpad = <<>>
    /\ query = "What is 2+2?"
    /\ ret = NoCall
    /\ last_assistant_prompt = ""

NextInstr == CallOrganizeInstructionPrompt

SpecInstr == InitInstr /\ [][NextInstr]_vars

(* The history renderer over histories.                                    *)

InitHist ==
    /\ app_config = Configured("{{historic_messages}}")
    /\ instruction = "Help the user"
    /\ prompt_messages_tools = <<Calculator>>
    /\ history_prompt_messages \in Histories
    /\ agent_scratchpad = <<>>
    /\ query = "What is 2+2?"
    /\ ret = NoCall
    /\ last_assistant_prompt = ""

NextHist == CallOrganizeHistoricPrompt

SpecHist == InitHist /\ [][NextHist]_vars

(* The runner across reasoning iterations: the caller appends units and    *)
(* assembles the prompt between appends.                                   *)

RunTemplates ==
    { "I: {{instruction}}\nH:\n{{historic_messages}}\nS:\n{{agent_scratchpad}}\n{{query}}",
      "{{query}} / {{agent_scratchpad}}",
      "Use Thought: and Action:\n{{historic_messages}}{{agent_scratchpad}}{{query}}" }

RunInstructions == { "Help the user", "{{historic_messages}}" }

RunHistories ==
    { None,
      Some(<<>>),
      Some(<<UserPromptMessage(ContentStr("What is 2+2?")),
             AssistantPromptMessage(ContentStr("4"))>>),
      Some(<<UserPromptMessage(ContentStr("{{query}} {{agent_scratchpad}}"))>>) }

Queries == { "What is 2+2?", "Thought: why?", "{{agent_scratchpad}}" }

Units ==
    { Unit("I should use the calculator", Some("{\"action\": \"calculator\"}"),
           Some("calculator"), Some("4"), Some("Let me calculate that")),
      Unit("thinking", None, Some("weather"), None, None),
      Unit("retry", Some(""), Some("weather"), Some(""), None),
      Unit("done", Some("{\"action\": \"Final Answer\"}"),
           Some(FINAL_ANSWER), None, Some("It is 4")),
      Unit("", None, None, None, Some("4")) }

Init ==
    /\ app_config \in {AgentNotSet} \cup {Configured(t) : t \in RunTemplates}
    /\ instruction \in RunInstructions
    /\ prompt_messages_tools = <<Calculator>>
    /\ history_prompt_messages \in RunHistories
    /\ agent_scratchpad = <<>>
    /\ query \in Queries
    /\ ret = NoCall
    /\ last_assistant_prompt = ""

Next ==
    \/ \E unit \in Units : AppendUnit(unit)
    \/ CallOrganizePromptMessages

Spec == Init /\ [][Next]_vars

-----------------------------------------------------------------------------
(* Vocabulary of the properties.                                           *)

Contains(s, sub) == Find(s, sub) # 0

EndsWith(s, p) == Len(p) <= Len(s) /\ SubSeq(s, Len(s) - Len(p) + 1, Len(s)) = p

IsPrefix(p, s) == StartsWith(s, p)

(* The pieces of s between the occurrences of sep, left to right.          *)
RECURSIVE Split(_, _)
Split(s, sep) ==
    LET i == Find(s, sep)
    IN  IF i = 0 THEN <<s>>
        ELSE <<SubSeq(s, 1, i - 1)>> \o Split(Drop(s, i + Len(sep) - 1), sep)

(* s with v standing in the place of every occurrence of token.            *)
Substituted(s, token, v) == Join(Split(s, token), v)

(* The number of (non-overlapping) occurrences of sub in s.                *)
Count(s, sub) == IF sub = "" THEN Len(s) + 1 ELSE Len(Split(s, sub)) - 1

RemoveAt(seq, i) == SubSeq(seq, 1, i - 1) \o SubSeq(seq, i + 1, Len(seq))

RECURSIVE Concat(_)
Concat(texts) == IF texts = <<>> THEN "" ELSE Head(texts) \o Concat(Tail(texts))

-----------------------------------------------------------------------------
(* C2: _organize_instruction_prompt fails with "Agent configuration is not *)
(* set" when the agent configuration is absent and with "prompt entity is  *)
(* not set" when the agent is present without a prompt entity; the two     *)
(* messages differ, no prompt is returned in either case, and neither is   *)
(* raised when both are present.                                           *)
C2_DistinctConfigErrors ==
    ret.op = "instruction" =>
        /\ ERR_NO_AGENT # ERR_NO_PROMPT
        /\ app_config.agent.isNone =>
               ret.raised /\ ret.error = ERR_NO_AGENT /\ ret.text = ""
        /\ (~app_config.agent.isNone) =>
               IF app_config.agent.val.prompt.isNone
               THEN ret.raised /\ ret.error = ERR_NO_PROMPT /\ ret.text = ""
               ELSE ~ret.raised /\ ret.error = ""

C2_Witness ==
    /\ ret.op = "instruction"
    /\ ~app_config.agent.isNone
    /\ ret.raised
    /\ ret.error = ERR_NO_PROMPT

-----------------------------------------------------------------------------
RECURSIVE TextValues(_)
TextValues(parts) ==
    IF parts = <<>> THEN <<>>
    ELSE IF Head(parts).type = "text"
         THEN <<Head(parts).data>> \o TextValues(Tail(parts))
         ELSE TextValues(Tail(parts))

(* The message forms the claim gives a block for.                          *)
Listed(m) ==
    \/ m.content.kind = "none"
    \/ m.role = "user" /\ m.content.kind \in {"str", "seq"}
    \/ m.role = "assistant" /\ m.content.kind \in {"str", "seq", "text"}
    \/ m.role = "tool" /\ m.content.kind \in {"str", "seq", "text"}
    \/ m.role \notin {"user", "assistant", "tool"}

Block(m) ==
    LET body == CASE m.content.kind = "str" -> m.content.data
                  [] m.content.kind = "text" -> m.content.data
                  [] m.content.kind = "seq" -> Join(TextValues(m.content.parts), " ")
                  [] OTHER -> ""
    IN  CASE m.content.kind = "none" -> ""
          [] m.role = "user" -> "Question: " \o body \o "\n\n"
          [] m.role = "assistant" -> body \o "\n\n"
          [] m.role = "tool" /\ m.content.kind # "seq" -> "Tool Response: " \o body \o "\n\n"
          [] OTHER -> ""

(* C4: the history transcript is the concatenation, in input order and     *)
(* with no leading separator, of one block per message: "Question: c\n\n"  *)
(* for a User string, "Question: j\n\n" for User parts (j the text parts   *)
(* joined by one space), the text followed by "\n\n" for an Assistant      *)
(* string, parts or single text part, "Tool Response: c\n\n" for a Tool    *)
(* string or single text part, and nothing for Tool parts, null content    *)
(* and unrecognized variants; an empty or absent history gives "".         *)
C4_TranscriptIsBlocksInOrder ==
    ret.op = "historic" =>
        /\ ~ret.raised
        /\ history_prompt_messages.isNone => ret.text = ""
        /\ (~history_prompt_messages.isNone) =>
               LET h == history_prompt_messages.val IN
               /\ h = <<>> => ret.text = ""
               /\ (\A i \in 1..Len(h) : Listed(h[i])) =>
                      ret.text = Concat([i \in 1..Len(h) |-> Block(h[i])])

C4_Witness ==
    /\ ret.op = "historic"
    /\ ~history_prompt_messages.isNone
    /\ Len(history_prompt_messages.val) = 2
    /\ history_prompt_messages.val[1] =
           ToolPromptMessage(ContentStr("The weather is sunny."))
    /\ history_prompt_messages.val[2].role = "user"
    /\ history_prompt_messages.val[2].content.kind = "seq"
    /\ ret.text = "Tool Response: The weather is sunny.\n\n"
                       \o "Question: What's the weather like? And temperature too?\n\n"

-----------------------------------------------------------------------------
Absent(m) ==
    \/ m.content.kind = "none"
    \/ m.content.kind = "str" /\ m.content.data = ""
    \/ m.content.kind = "seq" /\ m.content.parts = <<>>

(* C6 as stated: a User, Assistant or Tool message whose content is null   *)
(* or empty (empty string, empty sequence of parts) contributes nothing:   *)
(* the transcript is the one of the history without that message.          *)
C6_AbsentContentContributesNothing ==
    (ret.op = "historic" /\ ~history_prompt_messages.isNone) =>
        LET h == history_prompt_messages.val IN
        \A i \in 1..Len(h) :
            (h[i].role \in {"user", "assistant", "tool"} /\ Absent(h[i])) =>
                ret.text = historic_loop(RemoveAt(h, i), "")

EmptyBlock(m) ==
    CASE m.content.kind = "none" -> ""
      [] m.role = "user" -> "Question: \n\n"
      [] m.role = "assistant" -> "\n\n"
      [] m.role = "tool" /\ m.content.kind = "str" -> "Tool Response: \n\n"
      [] OTHER -> ""

(* C6 as amended: a message whose content is null contributes nothing; a   *)
(* message whose content is an empty string or an empty sequence of parts  *)
(* still contributes its role's block around the empty text                *)
(* ("Question: \n\n", "\n\n", "Tool Response: \n\n"), except a Tool        *)
(* message with a sequence of parts, which contributes nothing.            *)
C6_NullContentContributesNothing ==
    (ret.op = "historic" /\ ~history_prompt_messages.isNone) =>
        LET h == history_prompt_messages.val IN
        \A i \in 1..Len(h) :
            (h[i].role \in {"user", "assistant", "tool"} /\ Absent(h[i])) =>
                /\ ret.text = historic_loop(SubSeq(h, 1, i - 1), "")
                                   \o EmptyBlock(h[i])
                                   \o historic_loop(SubSeq(h, i + 1, Len(h)), "")
                /\ h[i].content.kind = "none" =>
                       ret.text = historic_loop(RemoveAt(h, i), "")

C6_Witness ==
    /\ ret.op = "historic"
    /\ ~history_prompt_messages.isNone
    /\ Len(history_prompt_messages.val) = 2
    /\ history_prompt_messages.val[1] = UserPromptMessage(ContentNone)
    /\ history_prompt_messages.val[2] = AssistantPromptMessage(ContentStr("Let me check."))
    /\ ret.text = "Let me check.\n\n"

-----------------------------------------------------------------------------
(* The rendering of the scratchpad as the properties describe it.          *)

NonEmpty(o) == IF o.isNone THEN FALSE ELSE Len(o.val) > 0

UnitLines(u) ==
    <<"Thought: " \o u.thought>>
        \o (IF NonEmpty(u.action_str) THEN <<"Action: " \o u.action_str.val>> ELSE <<>>)
        \o (IF NonEmpty(u.observation) THEN <<"Observation: " \o u.observation.val>> ELSE <<>>)

UnitRendering(u) ==
    IF is_final(u) THEN "Final Answer: " \o Format(u.agent_response)
    ELSE Concat([i \in 1..Len(UnitLines(u)) |-> UnitLines(u)[i] \o "\n\n"])

ScratchpadRendering(units) ==
    Concat([i \in 1..Len(units) |-> UnitRendering(units[i])])

(* A step that is a call of _organize_prompt_messages getting past the     *)
(* instruction prompt.                                                     *)
AssemblyStep ==
    /\ agent_scratchpad' = agent_scratchpad
    /\ ret'.op = "messages"
    /\ ~ret'.raised

(* The text of the single part of the single message returned.             *)
ReturnedText == ret.messages[1].content.parts[1].data

(* C5: the scratchpad text rendered by _organize_prompt_messages is the    *)
(* concatenation, in scratchpad order, of one rendering per unit: a final  *)
(* unit renders only "Final Answer: {agent_response}", a non-final unit    *)
(* "Thought: ..\n\n", then "Action: ..\n\n" if action_str is non-empty,    *)
(* then "Observation: ..\n\n" if observation is non-empty; when the last   *)
(* unit is final the text ends with its Final Answer line.                 *)
C5_ScratchpadRendering ==
    [][AssemblyStep =>
          /\ last_assistant_prompt' = ScratchpadRendering(agent_scratchpad)
          /\ (agent_scratchpad # <<>> /\ is_final(agent_scratchpad[Len(agent_scratchpad)])) =>
                 EndsWith(last_assistant_prompt',
                          "Final Answer: "
                              \o Format(agent_scratchpad[Len(agent_scratchpad)].agent_response))
      ]_vars

C5_Witness ==
    /\ ret.op = "messages"
    /\ ~ret.raised
    /\ Len(agent_scratchpad) = 2
    /\ is_final(agent_scratchpad[2])
    /\ last_assistant_prompt =
           "Thought: I should use the calculator\n\n"
               \o "Action: {\"action\": \"calculator\"}\n\n"
               \o "Observation: 4\n\n"
               \o "Final Answer: It is 4"

-----------------------------------------------------------------------------
(* C10: across reasoning iterations in which the caller only appends units *)
(* and calls _organize_prompt_messages between appends, a call leaves the  *)
(* scratchpad, history, tool catalog and template unchanged, the scratchpad*)
(* text of a later call has the text of every earlier call as a prefix,    *)
(* and the rendering of s followed by u is the rendering of s followed by  *)
(* the rendering of u.                                                     *)
C10_AppendOnlyRendering ==
    [][/\ ret' # ret => UNCHANGED <<inputs, agent_scratchpad>>
       /\ IsPrefix(last_assistant_prompt, last_assistant_prompt')
       /\ IsPrefix(last_assistant_prompt', scratchpad_loop(agent_scratchpad', ""))
       /\ agent_scratchpad' # agent_scratchpad =>
              scratchpad_loop(agent_scratchpad', "")
                  = scratchpad_loop(agent_scratchpad, "")
                        \o scratchpad_step(agent_scratchpad'[Len(agent_scratchpad')])
      ]_vars

C10_Witness ==
    /\ ret.op = "messages"
    /\ ~ret.raised
    /\ Len(agent_scratchpad) = 2
    /\ last_assistant_prompt # ""
    /\ last_assistant_prompt # scratchpad_loop(agent_scratchpad, "")
    /\ IsPrefix(last_assistant_prompt, scratchpad_loop(agent_scratchpad, ""))

-----------------------------------------------------------------------------
(* C3: for every configured runner state _organize_prompt_messages returns *)
(* a list of exactly one message, of user role, whose content is exactly   *)
(* one text part; its text is the rendered system prompt with              *)
(* {{historic_messages}} replaced by the history transcript, then          *)
(* {{agent_scratchpad}} by the scratchpad rendering, then {{query}} by     *)
(* "Question: " followed by the query.                                     *)
C3_OneUserTextMessage ==
    (ret.op = "messages" /\ IsConfigured) =>
        /\ ~ret.raised
        /\ Len(ret.messages) = 1
        /\ ret.messages[1].role = "user"
        /\ ret.messages[1].content.kind = "seq"
        /\ Len(ret.messages[1].content.parts) = 1
        /\ ret.messages[1].content.parts[1].type = "text"
        /\ ReturnedText =
               Substituted(
                   Substituted(
                       Substituted(organize_instruction_prompt.value,
                                   TOK_HISTORIC, organize_historic_prompt),
                       TOK_SCRATCHPAD, last_assistant_prompt),
                   TOK_QUERY, "Question: " \o query)

C3_Witness ==
    /\ ret.op = "messages"
    /\ ~ret.raised
    /\ Len(agent_scratchpad) = 1
    /\ ~is_final(agent_scratchpad[1])
    /\ last_assistant_prompt = scratchpad_loop(agent_scratchpad, "")
    /\ instruction = "Help the user"
    /\ query = "What is 2+2?"
    /\ ReturnedText =
           "I: Help the user\nH:\nQuestion: What is 2+2?\n\n4\n\n\nS:\n"
               \o "Thought: thinking\n\n" \o "\nQuestion: What is 2+2?"

-----------------------------------------------------------------------------
ScratchpadHeaders == {"Thought:", "Action:", "Observation:"}

AssemblyTokens ==
    <<TOK_INSTRUCTION, TOK_TOOLS, TOK_TOOL_NAMES, TOK_HISTORIC, TOK_SCRATCHPAD, TOK_QUERY>>

(* The literal pieces of s around the tokens tokens[k], tokens[k+1], ...   *)
RECURSIVE Literals(_, _, _)
Literals(s, tokens, k) ==
    IF k > Len(tokens) THEN {s}
    ELSE UNION {Literals(Split(s, tokens[k])[i], tokens, k + 1) :
                  i \in 1..Len(Split(s, tokens[k]))}

EmptyRun ==
    /\ ret.op = "messages"
    /\ agent_scratchpad = <<>>
    /\ historic_prompt_messages = <<>>

PlainInstruction ==
    \A k \in 1..Len(AssemblyTokens) : ~Contains(instruction, AssemblyTokens[k])

(* C7 as stated: with an empty scratchpad and an empty history,            *)
(* _organize_prompt_messages raises no error and its prompt contains the   *)
(* instruction text and the query line "Question: {query}", keeps the      *)
(* template's literal text, and contains none of "Thought:", "Action:",    *)
(* "Observation:".  Stated for instructions holding no placeholder token.  *)
C7_MinimalPromptHasNoScratchpadText ==
    (EmptyRun /\ IsConfigured /\ PlainInstruction) =>
        /\ ~ret.raised
        /\ Contains(ReturnedText, instruction)
        /\ Contains(ReturnedText, "Question: " \o query)
        /\ \A piece \in Literals(first_prompt, AssemblyTokens, 1) :
               Contains(ReturnedText, piece)
        /\ \A h \in ScratchpadHeaders : ~Contains(ReturnedText, h)

BlankedPrompt ==
    Substituted(
        Substituted(
            Substituted(organize_instruction_prompt.value, TOK_HISTORIC, ""),
            TOK_SCRATCHPAD, ""),
        TOK_QUERY, "Question: " \o query)

(* C7 as amended: with an empty scratchpad and an empty history, and the   *)
(* agent and its prompt configured, _organize_prompt_messages raises no    *)
(* error; the history transcript and the scratchpad rendering are both the *)
(* empty string, so the prompt is the system prompt with                   *)
(* {{historic_messages}} and {{agent_scratchpad}} removed and {{query}}    *)
(* replaced by "Question: {query}": "Thought:", "Action:" and              *)
(* "Observation:" occur in it exactly as often as in that text, none       *)
(* coming from the renderers.                                              *)
C7_MinimalPromptRegionsBlank ==
    (EmptyRun /\ IsConfigured) =>
        /\ ~ret.raised
        /\ last_assistant_prompt = ""
        /\ ReturnedText = BlankedPrompt
        /\ \A h \in ScratchpadHeaders :
               Count(ReturnedText, h) = Count(BlankedPrompt, h)

C7_Witness ==
    /\ EmptyRun
    /\ ~ret.raised
    /\ instruction = "Help the user"
    /\ query = "What is 2+2?"
    /\ ReturnedText = "I: Help the user\nH:\n\nS:\n\nQuestion: What is 2+2?"

-----------------------------------------------------------------------------
InstructionPromptReturned ==
    /\ ret.op = "instruction"
    /\ IsConfigured
    /\ Contains(first_prompt, TOK_INSTRUCTION)

InstructionInserted == Substituted(first_prompt, TOK_INSTRUCTION, instruction)

-----------------------------------------------------------------------------
InstructionTokens == <<TOK_INSTRUCTION, TOK_TOOLS, TOK_TOOL_NAMES>>

InstructionValues ==
    <<instruction, json_dumps(prompt_messages_tools), tool_names(prompt_messages_tools)>>

(* The replacements of the code applied in the order order[1], order[2],   *)
(* order[3].                                                               *)
ReplacedInOrder(text, order) ==
    Replace(Replace(Replace(text,
                            InstructionTokens[order[1]], InstructionValues[order[1]]),
                    InstructionTokens[order[2]], InstructionValues[order[2]]),
            InstructionTokens[order[3]], InstructionValues[order[3]])

(* C9 as stated: the result of the placeholder substitutions does not      *)
(* depend on the order in which the tokens are substituted, and each       *)
(* inserted value appears raw, unchanged by the later replacements.        *)
C9_SubstitutionOrderIrrelevant ==
    (ret.op = "instruction" /\ ~ret.raised) =>
        /\ \A order \in Permutations(1..3) :
               ReplacedInOrder(first_prompt, order) = ret.text
        /\ \A k \in 1..3 :
               Contains(first_prompt, InstructionTokens[k]) =>
                   Contains(ret.text, InstructionValues[k])

-----------------------------------------------------------------------------
(* Reading a JSON text back: strings, dicts of strings, tool objects and   *)
(* the array of them.  A reader returns what it read and the rest of the   *)
(* text.                                                                   *)

Char(s, i) == SubSeq(s, i, i)

Failed == [ok |-> FALSE, val |-> <<>>, rest |-> ""]

Read(v, rest) == [ok |-> TRUE, val |-> v, rest |-> rest]

RECURSIVE BackslashesBefore(_, _)
BackslashesBefore(s, j) ==
    IF j = 1 THEN 0
    ELSE IF Char(s, j - 1) # "\\" THEN 0
    ELSE 1 + BackslashesBefore(s, j - 1)

(* The first quote at or after position from that no backslash escapes.    *)
RECURSIVE ClosingQuote(_, _)
ClosingQuote(s, from) ==
    LET i == Find(Drop(s, from - 1), "\"")
        j == from - 1 + i
    IN  IF i = 0 THEN 0
        ELSE IF BackslashesBefore(s, j) % 2 = 0 THEN j
        ELSE ClosingQuote(s, j + 1)

RECURSIVE Unescape(_)
Unescape(body) ==
    LET i == Find(body, "\\")
    IN  IF i = 0 THEN body
        ELSE SubSeq(body, 1, i - 1)
                 \o (IF Char(body, i + 1) = "n" THEN "\n" ELSE Char(body, i + 1))
                 \o Unescape(Drop(body, i + 1))

ReadString(s) ==
    IF ~StartsWith(s, "\"") THEN Failed
    ELSE LET c == ClosingQuote(s, 2)
         IN  IF c = 0 THEN Failed
             ELSE Read(Unescape(SubSeq(s, 2, c - 1)), Drop(s, c))

ReadKey(s, key) ==
    LET k == ReadString(s)
    IN  IF k.ok
        THEN (IF k.val = key /\ StartsWith(k.rest, ": ")
              THEN Read(key, Drop(k.rest, 2)) ELSE Failed)
        ELSE Failed

RECURSIVE ReadPairs(_, _)
ReadPairs(s, pairs) ==
    LET k == ReadString(s) IN
    IF ~k.ok THEN Failed
    ELSE IF ~StartsWith(k.rest, ": ") THEN Failed
    ELSE LET v == ReadString(Drop(k.rest, 2)) IN
         IF ~v.ok THEN Failed
         ELSE IF StartsWith(v.rest, "}")
              THEN Read(Append(pairs, <<k.val, v.val>>), Drop(v.rest, 1))
         ELSE IF StartsWith(v.rest, ", ")
              THEN ReadPairs(Drop(v.rest, 2), Append(pairs, <<k.val, v.val>>))
         ELSE Failed

ReadDict(s) ==
    IF StartsWith(s, "{}") THEN Read(<<>>, Drop(s, 2))
    ELSE IF StartsWith(s, "{") THEN ReadPairs(Drop(s, 1), <<>>)
    ELSE Failed

ReadToolObject(s) ==
    IF ~StartsWith(s, "{") THEN Failed ELSE
    LET k1 == ReadKey(Drop(s, 1), "name") IN
    IF ~k1.ok THEN Failed ELSE
    LET n == ReadString(k1.rest) IN
    IF ~n.ok THEN Failed ELSE
    IF ~StartsWith(n.rest, ", ") THEN Failed ELSE
    LET k2 == ReadKey(Drop(n.rest, 2), "description") IN
    IF ~k2.ok THEN Failed ELSE
    LET d == ReadString(k2.rest) IN
    IF ~d.ok THEN Failed ELSE
    IF ~StartsWith(d.rest, ", ") THEN Failed ELSE
    LET k3 == ReadKey(Drop(d.rest, 2), "parameters") IN
    IF ~k3.ok THEN Failed ELSE
    LET ps == ReadDict(k3.rest) IN
    IF ~ps.ok THEN Failed ELSE
    IF ~StartsWith(ps.rest, "}") THEN Failed
    ELSE Read(Tool(n.val, d.val, ps.val), Drop(ps.rest, 1))

RECURSIVE ReadObjects(_, _)
ReadObjects(s, objects) ==
    LET o == ReadToolObject(s) IN
    IF ~o.ok THEN Failed
    ELSE IF StartsWith(o.rest, "]") THEN Read(Append(objects, o.val), Drop(o.rest, 1))
    ELSE IF StartsWith(o.rest, ", ") THEN ReadObjects(Drop(o.rest, 2), Append(objects, o.val))
    ELSE Failed

ReadArray(s) ==
    IF StartsWith(s, "[]") THEN Read(<<>>, Drop(s, 2))
    ELSE IF StartsWith(s, "[") THEN ReadObjects(Drop(s, 1), <<>>)
    ELSE Failed

-----------------------------------------------------------------------------
RECURSIVE NamesInOrder(_)
NamesInOrder(catalog) ==
    IF Len(catalog) = 0 THEN ""
    ELSE IF Len(catalog) = 1 THEN catalog[1].name
    ELSE NamesInOrder(SubSeq(catalog, 1, Len(catalog) - 1))
             \o ", " \o catalog[Len(catalog)].name

ToolsInserted ==
    Substituted(InstructionInserted, TOK_TOOLS, json_dumps(prompt_messages_tools))

(* C8: for any tool catalog _organize_instruction_prompt replaces          *)
(* {{tool_names}} by the tool names joined with ", " in catalog order and  *)
(* {{tools}} by a JSON array with one object per tool in catalog order; a  *)
(* placeholder token absent from the text is not substituted and causes no *)
(* error.                                                                  *)
C8_ToolNamesAndToolsJson ==
    (ret.op = "instruction" /\ IsConfigured) =>
        /\ ~ret.raised
        /\ ret.text =
               Substituted(ToolsInserted, TOK_TOOL_NAMES, NamesInOrder(prompt_messages_tools))
        /\ LET array == ReadArray(json_dumps(prompt_messages_tools))
           IN  array.ok /\ array.rest = "" /\ array.val = prompt_messages_tools
        /\ (\A k \in 1..3 : ~Contains(first_prompt, InstructionTokens[k])) =>
               ret.text = first_prompt
        /\ ~Contains(InstructionInserted, TOK_TOOLS) =>
               ret.text = Substituted(InstructionInserted, TOK_TOOL_NAMES,
                                      NamesInOrder(prompt_messages_tools))
        /\ ~Contains(ToolsInserted, TOK_TOOL_NAMES) => ret.text = ToolsInserted

C8_Witness ==
    /\ ret.op = "instruction"
    /\ ~ret.raised
    /\ prompt_messages_tools = <<Calculator, Weather>>
    /\ instruction = "Help the user"
    /\ ret.text =
           "I: Help the user\nT: "
               \o "[{\"name\": \"calculator\", \"description\": \"math\", "
               \o "\"parameters\": {\"type\": \"object\"}}, "
               \o "{\"name\": \"weather\", \"description\": \"say \\\"hi\\\"\", "
               \o "\"parameters\": {}}]"
               \o "\nN: calculator, weather"

====
